---- MODULE Spec2Model ----
(***************************************************************************)
(* A state-machine model of the api_yamdb service: the persisted entities  *)
(* of reviews/models.py and the request handlers of api/views.py.          *)
(*                                                                         *)
(* The permission classes, the serializers and send_email are defined in   *)
(* api/permissions.py, api/serializers.py and api/send_email.py; they are  *)
(* modelled from their specification.                                      *)
(***************************************************************************)
EXTENDS Integers, Sequences, FiniteSets, TLC

VARIABLES
    users,       \* table reviews_user: set of User rows
    categories,  \* table reviews_category: set of slugs
    genres,      \* table reviews_genre: set of slugs
    titles,      \* table reviews_title: set of Title rows
    reviews,     \* table reviews_review: set of Review rows
    comments,    \* table reviews_comment: set of Comment rows
    nextPk,      \* the auto-increment counter of each table
    reqs,        \* review-create requests in flight (concurrent workers)
    last         \* the request handled last and the response it was given

vars == <<users, categories, genres, titles, reviews, comments, nextPk, reqs, last>>

store == <<users, categories, genres, titles, reviews, comments>>

----------------------------------------------------------------------------
(* Bounds of the model *)

\* Largest primary key the user table hands out.
MaxUserPk == 3

\* Largest primary key the title, review and comment tables hand out.
MaxPk == 1

----------------------------------------------------------------------------
(* Strings that the code inspects character by character are sequences of  *)
(* one-character strings, so that str.lower() is computed, not assumed.    *)

S_me == <<"m", "e">>
S_Me == <<"M", "e">>
S_ME == <<"M", "E">>
S_bob == <<"b", "o", "b">>
S_root == <<"r", "o", "o", "t">>
S_adm == <<"a", "d", "m">>

LowerChar(c) ==
    CASE c = "M" -> "m"
      [] c = "E" -> "e"
      [] OTHER -> c

\* str.lower()
Lower(s) == [i \in DOMAIN s |-> LowerChar(s[i])]

\* Usernames that sign-up and user-administration requests carry.
Usernames == {S_me, S_ME, S_bob}

\* Values of the {username} path segment of /users/{username}/.
Segments == {S_me, S_Me, S_ME, S_bob}

Emails == {"a@x", "b@x"}

Anonymous == 0

Null == "NULL"

----------------------------------------------------------------------------
(* Data model: reviews/models.py *)

USER == "user"
MODERATOR == "moderator"
ADMIN == "admin"

ROLE_CHOICES == {USER, MODERATOR, ADMIN}

\* User.role: default=USER
User_role_default == USER

\* A row of the user table. last_login is the AbstractUser column that the
\* confirmation code is derived from (0 stands for NULL: never logged in).
UserRow(pk, username, email, role, su) ==
    [pk |-> pk, username |-> username, email |-> email, role |-> role,
     is_superuser |-> su, last_login |-> 0]

\* User.email: unique=True, and AbstractUser.username: unique=True. Whether
\* the table `us` accepts the row `u` (as a new row, or in place of the row
\* with the same pk).
UserUniqueOk(us, u) ==
    \A v \in us :
        v.pk # u.pk => (v.username # u.username /\ v.email # u.email)

\* on_delete of each foreign key.
Title_category_on_delete_Cascade == "CASCADE"
Title_category_on_delete == "SET_NULL"
Review_author_on_delete == "CASCADE"
Review_title_on_delete == "CASCADE"
Comment_author_on_delete == "CASCADE"
Comment_review_on_delete == "CASCADE"

\* Review.Meta.constraints: UniqueConstraint(fields=['author', 'title'],
\* name='rating_once'). Whether the table `rs` accepts a new row for the pair.
rating_once(rs, author, title) ==
    \A r \in rs : ~(r.author = author /\ r.title = title)

\* Review.score validators: MinValueValidator(1), MaxValueValidator(10).
ScoreValid(score) == score >= 1 /\ score <= 10

\* The rows that go when the users du, the titles dt and the reviews dr are
\* deleted: the collector follows every CASCADE foreign key.
ReviewsDeleted(du, dt, dr) ==
    {r \in reviews :
        \/ r.pk \in dr
        \/ (Review_author_on_delete = "CASCADE" /\ r.author \in du)
        \/ (Review_title_on_delete = "CASCADE" /\ r.title \in dt)}

CommentsDeleted(du, dt, dr, dc) ==
    {c \in comments :
        \/ c.pk \in dc
        \/ (Comment_author_on_delete = "CASCADE" /\ c.author \in du)
        \/ (Comment_review_on_delete = "CASCADE"
              /\ c.review \in {r.pk : r \in ReviewsDeleted(du, dt, dr)})}

\* The title table after the categories dcat and the titles dt are deleted.
TitlesAfterDelete(dcat, dt) ==
    LET kept == {t \in titles :
                    /\ t.pk \notin dt
                    /\ ~(Title_category_on_delete = "CASCADE" /\ t.category \in dcat)}
    IN {IF Title_category_on_delete = "SET_NULL" /\ t.category \in dcat
           THEN [t EXCEPT !.category = Null]
           ELSE t : t \in kept}

----------------------------------------------------------------------------
(* Requests and responses *)

UserOf(pk) == CHOOSE u \in users : u.pk = pk

IsAuthenticated(caller) == \E u \in users : u.pk = caller

\* The callers a request can come from: nobody, or a user of the store.
Callers == {Anonymous} \cup {u.pk : u \in users}

\* The response recorded for the request handled last.
Response(view, action, caller, arg, status, out) ==
    [view |-> view, action |-> action, caller |-> caller, arg |-> arg,
     status |-> status, out |-> out]

\* No response is waiting to be sent.
NoResponse == Response("none", "none", Anonymous, <<>>, "none", {})

\* The worker is free to take the next request: requests are handled one
\* after the other, each to completion.
Idle == last.view = "none"

\* The response of the request handled last goes out to the client.
SendResponse ==
    /\ ~Idle
    /\ last' = NoResponse
    /\ UNCHANGED <<store, nextPk, reqs>>

\* APIView.permission_denied: 401 for a caller who is not authenticated,
\* 403 for one who is.
PermissionDenied(caller) ==
    IF IsAuthenticated(caller) THEN "Forbidden" ELSE "Unauthorized"

SAFE_METHODS == {"list", "retrieve"}

----------------------------------------------------------------------------
(* Permission classes (api/permissions.py) *)

HasRole(caller, role) ==
    IsAuthenticated(caller) /\ UserOf(caller).role = role

IsAdmin(caller) == HasRole(caller, ADMIN)

IsSuperuser(caller) ==
    IsAuthenticated(caller) /\ UserOf(caller).is_superuser

\* AdminOrReadOnly.has_permission
AdminOrReadOnly(caller, action) ==
    action \in SAFE_METHODS \/ IsAdmin(caller) \/ IsSuperuser(caller)

\* rest_framework.permissions.IsAuthenticatedOrReadOnly.has_permission
IsAuthenticatedOrReadOnly(caller, action) ==
    action \in SAFE_METHODS \/ IsAuthenticated(caller)

\* ReviewPermission.has_object_permission
ReviewPermission(caller, action, author) ==
    \/ action \in SAFE_METHODS
    \/ caller = author
    \/ HasRole(caller, MODERATOR)
    \/ IsAdmin(caller)
    \/ IsSuperuser(caller)

\* UserOrModeratorSelfGetPatchOnly.has_permission
SelfGetPatchOnly(caller, action) ==
    IsAuthenticated(caller) /\ action \in {"retrieve", "partial_update"}

\* UserOrModeratorSelfGetPatchOnly.has_object_permission
SelfGetPatchOnlyObject(caller, action, obj) ==
    /\ SelfGetPatchOnly(caller, action)
    /\ obj.username = UserOf(caller).username

----------------------------------------------------------------------------
(* Sign-up: SignUpViewSet *)

\* SignUpSerializer validation: the reserved username, then the lookup by
\* the (username, email) pair.
SignUpValidate(n, e) ==
    IF n = S_me THEN "BadRequest"
    ELSE IF \E u \in users : u.username = n /\ u.email # e THEN "Conflict"
    ELSE IF \E u \in users : u.email = e /\ u.username # n THEN "Conflict"
    ELSE "valid"

\* serializer.is_valid(raise_exception=True)
SignUpRaiseException_Off == FALSE
SignUpRaiseException == TRUE

\* send_email(user): hands the confirmation code to the mail transport; a
\* transport failure is logged, and nothing is raised or returned.
send_email(transportUp) == IF transportUp THEN "sent" ELSE "failed"

\* The status of the response of a sign-up that got past validation and save.
SignUpResponse_IfMailed(mail) == IF mail = "sent" THEN "OK" ELSE "ServerError"
SignUpResponse(mail) == "OK"

\* SignUpViewSet.create
SignUpCreate ==
    /\ Idle
    /\ \E n \in Usernames, e \in Emails, transportUp \in BOOLEAN :
        LET v == SignUpValidate(n, e)
            row == UserRow(nextPk.user, n, e, User_role_default, FALSE)
            found == \E u \in users : u.username = n /\ u.email = e
        IN
        IF v # "valid" /\ SignUpRaiseException
        THEN /\ last' = Response("signup", "create", Anonymous, <<n, e>>, v, "none")
             /\ UNCHANGED <<store, nextPk, reqs>>
        ELSE IF found
        THEN \* perform_create finds the record; the code is sent again
             LET mail == send_email(transportUp) IN
             /\ last' = Response("signup", "create", Anonymous, <<n, e>>,
                                 SignUpResponse(mail), mail)
             /\ UNCHANGED <<store, nextPk, reqs>>
        ELSE IF ~UserUniqueOk(users, row)
        THEN \* the INSERT violates a unique constraint: IntegrityError
             /\ last' = Response("signup", "create", Anonymous, <<n, e>>,
                                 "ServerError", "none")
             /\ UNCHANGED <<store, nextPk, reqs>>
        ELSE LET mail == send_email(transportUp) IN
             /\ nextPk.user <= MaxUserPk
             /\ users' = users \cup {row}
             /\ nextPk' = [nextPk EXCEPT !.user = @ + 1]
             /\ last' = Response("signup", "create", Anonymous, <<n, e>>,
                                 SignUpResponse(mail), mail)
             /\ UNCHANGED <<categories, genres, titles, reviews, comments, reqs>>

----------------------------------------------------------------------------
(* Token issuance: TokenViewSet *)

\* default_token_generator.make_token(user): a hash over the user's pk,
\* email and last_login (and password, which no handler changes).
make_token(u) == <<u.pk, u.email, u.last_login>>

\* default_token_generator.check_token(user, token)
check_token(u, code) == code = make_token(u)

\* A request body without a confirmation code.
Missing == <<>>

\* The confirmation codes a token request may carry.
CodeInputs ==
    {<<pk, e, 0>> : pk \in 1..MaxUserPk, e \in Emails} \cup {Missing}

\* TokenSerializer validation: both fields are required.
TokenValidate(n, code) == code # Missing

\* str(RefreshToken.for_user(user).access_token)
AccessToken(u) == <<"jwt", u.pk>>

NoToken == <<>>

\* What the success branch writes to the user table: nothing.
TokenUsersAfter_Login(u) ==
    (users \ {u}) \cup {[u EXCEPT !.last_login = 1]}
TokenUsersAfter(u) == users

\* The response of the branch taken when the code does not check.
TokenRejected_Leaks(u) == <<"OK", AccessToken(u)>>
TokenRejected(u) == <<"BadRequest", NoToken>>

\* TokenViewSet.create
TokenCreate ==
    /\ Idle
    /\ \E n \in Usernames, code \in CodeInputs :
        /\ IF ~TokenValidate(n, code)
           THEN /\ last' = Response("token", "create", Anonymous, <<n, code>>,
                                    "BadRequest", NoToken)
                /\ users' = users
           ELSE IF ~\E u \in users : u.username = n
           THEN \* get_object_or_404
                /\ last' = Response("token", "create", Anonymous, <<n, code>>,
                                    "NotFound", NoToken)
                /\ users' = users
           ELSE LET user == CHOOSE u \in users : u.username = n IN
                IF check_token(user, code)
                THEN /\ last' = Response("token", "create", Anonymous, <<n, code>>,
                                         "OK", AccessToken(user))
                     /\ users' = TokenUsersAfter(user)
                ELSE /\ last' = Response("token", "create", Anonymous, <<n, code>>,
                                         TokenRejected(user)[1], TokenRejected(user)[2])
                     /\ users' = users
        /\ UNCHANGED <<categories, genres, titles, reviews, comments, nextPk, reqs>>

----------------------------------------------------------------------------
(* User administration: UsersViewSet *)

\* permission_classes = [UserOrModeratorSelfGetPatchOnly | IsAdmin | IsSuperuser]
UsersHasPermission(caller, action) ==
    SelfGetPatchOnly(caller, action) \/ IsAdmin(caller) \/ IsSuperuser(caller)

UsersHasObjectPermission(caller, action, obj) ==
    \/ SelfGetPatchOnlyObject(caller, action, obj)
    \/ IsAdmin(caller)
    \/ IsSuperuser(caller)

\* UsersViewSet.get_queryset: the username the lookup is made with. str() of
\* the authenticated user is its username.
UsersLookup_CaseSensitive(seg, caller) ==
    IF seg = S_me THEN UserOf(caller).username ELSE seg
UsersLookup(seg, caller) ==
    IF Lower(seg) = S_me THEN UserOf(caller).username ELSE seg

\* The fields a request body may carry; "absent" leaves the column alone.
Absent == "absent"

UserBodies ==
    [email : Emails \cup {Absent}, role : ROLE_CHOICES \cup {Absent}]

\* UserSerializer.update: every field of the body is written, role included.
UserApply(u, body) ==
    [u EXCEPT !.email = IF body.email = Absent THEN @ ELSE body.email,
              !.role = IF body.role = Absent THEN @ ELSE body.role]

\* UsersViewSet list (ListModelMixin.list)
UsersList ==
    /\ Idle
    /\ \E caller \in Callers :
        /\ last' = Response("users", "list", caller, <<>>,
                            IF UsersHasPermission(caller, "list")
                            THEN "OK" ELSE PermissionDenied(caller), 0)
        /\ UNCHANGED <<store, nextPk, reqs>>

\* UsersViewSet.create
UsersCreate ==
    /\ Idle
    /\ \E caller \in Callers, n \in Usernames \ {S_me}, e \in Emails,
          role \in ROLE_CHOICES :
        LET row == UserRow(nextPk.user, n, e, role, FALSE) IN
        IF ~UsersHasPermission(caller, "create")
        THEN /\ last' = Response("users", "create", caller, <<>>,
                                 PermissionDenied(caller), 0)
             /\ UNCHANGED <<store, nextPk, reqs>>
        ELSE IF ~UserUniqueOk(users, row)
        THEN \* serializer.is_valid() is false
             /\ last' = Response("users", "create", caller, <<>>, "BadRequest", 0)
             /\ UNCHANGED <<store, nextPk, reqs>>
        ELSE /\ nextPk.user <= MaxUserPk
             /\ users' = users \cup {row}
             /\ nextPk' = [nextPk EXCEPT !.user = @ + 1]
             /\ last' = Response("users", "create", caller, <<>>, "Created", row.pk)
             /\ UNCHANGED <<categories, genres, titles, reviews, comments, reqs>>

\* What a detail request on /users/{seg}/ resolves to before its handler
\* acts: a status that ends the request, or the row it is about.
UsersGetObject(caller, action, seg) ==
    IF ~UsersHasPermission(caller, action)
    THEN [status |-> PermissionDenied(caller), obj |-> Null]
    ELSE LET name == UsersLookup(seg, caller) IN
         IF ~\E u \in users : u.username = name
         THEN [status |-> "NotFound", obj |-> Null]
         ELSE LET obj == CHOOSE u \in users : u.username = name IN
              IF ~UsersHasObjectPermission(caller, action, obj)
              THEN [status |-> PermissionDenied(caller), obj |-> Null]
              ELSE [status |-> "found", obj |-> obj]

\* UsersViewSet retrieve (RetrieveModelMixin.retrieve)
UsersRetrieve ==
    /\ Idle
    /\ \E caller \in Callers, seg \in Segments :
        LET got == UsersGetObject(caller, "retrieve", seg) IN
        /\ last' = IF got.status = "found"
                   THEN Response("users", "retrieve", caller, seg, "OK", got.obj.pk)
                   ELSE Response("users", "retrieve", caller, seg, got.status, 0)
        /\ UNCHANGED <<store, nextPk, reqs>>

\* UsersViewSet update and partial_update (UpdateModelMixin)
UsersUpdate ==
    /\ Idle
    /\ \E caller \in Callers, seg \in Segments, body \in UserBodies,
          action \in {"update", "partial_update"} :
        LET got == UsersGetObject(caller, action, seg) IN
        IF got.status # "found"
        THEN /\ last' = Response("users", action, caller, seg, got.status, 0)
             /\ UNCHANGED <<store, nextPk, reqs>>
        ELSE LET row == UserApply(got.obj, body) IN
             IF ~UserUniqueOk(users, row)
             THEN /\ last' = Response("users", action, caller, seg, "BadRequest", 0)
                  /\ UNCHANGED <<store, nextPk, reqs>>
             ELSE /\ users' = (users \ {got.obj}) \cup {row}
                  /\ last' = Response("users", action, caller, seg, "OK", row.pk)
                  /\ UNCHANGED <<categories, genres, titles, reviews, comments,
                                 nextPk, reqs>>

\* UsersViewSet.destroy
UsersDestroy ==
    /\ Idle
    /\ \E caller \in Callers, seg \in Segments :
        LET got == UsersGetObject(caller, "destroy", seg) IN
        IF got.status # "found"
        THEN /\ last' = Response("users", "destroy", caller, seg, got.status, 0)
             /\ UNCHANGED <<store, nextPk, reqs>>
        ELSE /\ users' = users \ {got.obj}
             /\ reviews' = reviews \ ReviewsDeleted({got.obj.pk}, {}, {})
             /\ comments' = comments \ CommentsDeleted({got.obj.pk}, {}, {}, {})
             /\ last' = Response("users", "destroy", caller, seg, "NoContent",
                                 got.obj.pk)
             /\ UNCHANGED <<categories, genres, titles, nextPk, reqs>>

----------------------------------------------------------------------------
(* The account service: sign-up, token issuance, user administration *)

\* The store after `manage.py createsuperuser`: one superuser, nothing else.
InitAccounts ==
    /\ users = {UserRow(1, S_root, "root@x", USER, TRUE)}
    /\ categories = {}
    /\ genres = {}
    /\ titles = {}
    /\ reviews = {}
    /\ comments = {}
    /\ nextPk = [user |-> 2, title |-> 1, review |-> 1, comment |-> 1]
    /\ reqs = <<>>
    /\ last = NoResponse

NextAccounts ==
    \/ SignUpCreate
    \/ TokenCreate
    \/ UsersList
    \/ UsersCreate
    \/ UsersRetrieve
    \/ UsersUpdate
    \/ UsersDestroy
    \/ SendResponse

SpecAccounts == InitAccounts /\ [][NextAccounts]_vars

----------------------------------------------------------------------------
(* Categories and genres: CategoriesViewSet, GenresViewSet *)

CategorySlugs == {"film"}

GenreSlugs == {"rock"}

\* CategoriesViewSet.permission_classes
CategoriesPermission_AllowAny(caller, action) == TRUE
CategoriesPermission(caller, action) == AdminOrReadOnly(caller, action)

\* GenresViewSet.permission_classes
GenresPermission(caller, action) == AdminOrReadOnly(caller, action)

\* The viewsets mix in create, list and destroy: a detail GET, PUT or PATCH
\* finds no handler once the permission check has passed.
NoHandler(caller, permitted) ==
    IF permitted THEN "MethodNotAllowed" ELSE PermissionDenied(caller)

\* CategoriesViewSet: list, and the methods without a handler
CategoriesOther ==
    /\ Idle
    /\ \E caller \in Callers, action \in {"list", "retrieve", "partial_update"} :
        /\ last' = Response("categories", action, caller, <<>>,
                            IF action = "list" /\ CategoriesPermission(caller, action)
                            THEN "OK"
                            ELSE NoHandler(caller, CategoriesPermission(caller, action)),
                            {})
        /\ UNCHANGED <<store, nextPk, reqs>>

\* CategoriesViewSet create (CreateModelMixin.create)
CategoriesCreate ==
    /\ Idle
    /\ \E caller \in Callers, slug \in CategorySlugs :
        IF ~CategoriesPermission(caller, "create")
        THEN /\ last' = Response("categories", "create", caller, <<>>,
                                 PermissionDenied(caller), {})
             /\ UNCHANGED <<store, nextPk, reqs>>
        ELSE IF slug \in categories
        THEN \* CategoriesSerializer: the slug is taken
             /\ last' = Response("categories", "create", caller, <<>>, "Conflict", {})
             /\ UNCHANGED <<store, nextPk, reqs>>
        ELSE /\ categories' = categories \cup {slug}
             /\ last' = Response("categories", "create", caller, <<>>, "Created", {})
             /\ UNCHANGED <<users, genres, titles, reviews, comments, nextPk, reqs>>

\* CategoriesViewSet destroy (DestroyModelMixin.destroy); `out` records the
\* titles that referred to the category.
CategoriesDestroy ==
    /\ Idle
    /\ \E caller \in Callers, slug \in CategorySlugs :
        IF ~CategoriesPermission(caller, "destroy")
        THEN /\ last' = Response("categories", "destroy", caller, <<>>,
                                 PermissionDenied(caller), {})
             /\ UNCHANGED <<store, nextPk, reqs>>
        ELSE IF slug \notin categories
        THEN /\ last' = Response("categories", "destroy", caller, <<>>, "NotFound", {})
             /\ UNCHANGED <<store, nextPk, reqs>>
        ELSE /\ categories' = categories \ {slug}
             /\ titles' = TitlesAfterDelete({slug}, {})
             /\ reviews' = reviews \ ReviewsDeleted({}, {t.pk : t \in titles} \ {t.pk : t \in titles'}, {})
             /\ comments' = comments \ CommentsDeleted({}, {t.pk : t \in titles} \ {t.pk : t \in titles'}, {}, {})
             /\ last' = Response("categories", "destroy", caller, <<>>, "NoContent",
                                 {t.pk : t \in {x \in titles : x.category = slug}})
             /\ UNCHANGED <<users, genres, nextPk, reqs>>

\* GenresViewSet: list, and the methods without a handler
GenresOther ==
    /\ Idle
    /\ \E caller \in Callers, action \in {"list", "retrieve", "partial_update"} :
        /\ last' = Response("genres", action, caller, <<>>,
                            IF action = "list" /\ GenresPermission(caller, action)
                            THEN "OK"
                            ELSE NoHandler(caller, GenresPermission(caller, action)),
                            {})
        /\ UNCHANGED <<store, nextPk, reqs>>

\* GenresViewSet create (CreateModelMixin.create)
GenresCreate ==
    /\ Idle
    /\ \E caller \in Callers, slug \in GenreSlugs :
        IF ~GenresPermission(caller, "create")
        THEN /\ last' = Response("genres", "create", caller, <<>>,
                                 PermissionDenied(caller), {})
             /\ UNCHANGED <<store, nextPk, reqs>>
        ELSE IF slug \in genres
        THEN \* GenresSerializer: the slug is taken
             /\ last' = Response("genres", "create", caller, <<>>, "Conflict", {})
             /\ UNCHANGED <<store, nextPk, reqs>>
        ELSE /\ genres' = genres \cup {slug}
             /\ last' = Response("genres", "create", caller, <<>>, "Created", {})
             /\ UNCHANGED <<users, categories, titles, reviews, comments, nextPk, reqs>>

\* GenresViewSet destroy (DestroyModelMixin.destroy)
GenresDestroy ==
    /\ Idle
    /\ \E caller \in Callers, slug \in GenreSlugs :
        IF ~GenresPermission(caller, "destroy")
        THEN /\ last' = Response("genres", "destroy", caller, <<>>,
                                 PermissionDenied(caller), {})
             /\ UNCHANGED <<store, nextPk, reqs>>
        ELSE IF slug \notin genres
        THEN /\ last' = Response("genres", "destroy", caller, <<>>, "NotFound", {})
             /\ UNCHANGED <<store, nextPk, reqs>>
        ELSE /\ genres' = genres \ {slug}
             /\ last' = Response("genres", "destroy", caller, <<>>, "NoContent", {})
             /\ UNCHANGED <<users, categories, titles, reviews, comments, nextPk, reqs>>

----------------------------------------------------------------------------
(* Titles: TitleViewSet *)

\* Primary keys that a path may name: those the tables hand out, and one
\* that names no row.
Ids == 1..(MaxPk + 1)

\* TitleViewSet.permission_classes
TitlePermission(caller, action) == AdminOrReadOnly(caller, action)

TitleExists(tid) == \E t \in titles : t.pk = tid

\* TitleViewSet list and retrieve
TitleRead ==
    /\ Idle
    /\ \E caller \in Callers, action \in SAFE_METHODS, tid \in Ids :
        /\ last' = Response("titles", action, caller, <<>>,
                            IF ~TitlePermission(caller, action)
                            THEN PermissionDenied(caller)
                            ELSE IF action = "retrieve" /\ ~TitleExists(tid)
                            THEN "NotFound" ELSE "OK", {})
        /\ UNCHANGED <<store, nextPk, reqs>>

\* TitleViewSet create; TitleCreateSerializer takes the category by slug.
TitleCreate ==
    /\ Idle
    /\ \E caller \in Callers, cat \in CategorySlugs :
        IF ~TitlePermission(caller, "create")
        THEN /\ last' = Response("titles", "create", caller, <<>>,
                                 PermissionDenied(caller), {})
             /\ UNCHANGED <<store, nextPk, reqs>>
        ELSE IF cat \notin categories
        THEN /\ last' = Response("titles", "create", caller, <<>>, "BadRequest", {})
             /\ UNCHANGED <<store, nextPk, reqs>>
        ELSE /\ nextPk.title <= MaxPk
             /\ titles' = titles \cup {[pk |-> nextPk.title, category |-> cat]}
             /\ nextPk' = [nextPk EXCEPT !.title = @ + 1]
             /\ last' = Response("titles", "create", caller, <<>>, "Created", {})
             /\ UNCHANGED <<users, categories, genres, reviews, comments, reqs>>

\* TitleViewSet partial_update
TitlePartialUpdate ==
    /\ Idle
    /\ \E caller \in Callers, tid \in Ids, cat \in CategorySlugs :
        IF ~TitlePermission(caller, "partial_update")
        THEN /\ last' = Response("titles", "partial_update", caller, <<>>,
                                 PermissionDenied(caller), {})
             /\ UNCHANGED <<store, nextPk, reqs>>
        ELSE IF ~TitleExists(tid) \/ cat \notin categories
        THEN /\ last' = Response("titles", "partial_update", caller, <<>>,
                                 IF ~TitleExists(tid) THEN "NotFound" ELSE "BadRequest",
                                 {})
             /\ UNCHANGED <<store, nextPk, reqs>>
        ELSE /\ titles' = {IF t.pk = tid THEN [t EXCEPT !.category = cat] ELSE t :
                              t \in titles}
             /\ last' = Response("titles", "partial_update", caller, <<>>, "OK", {})
             /\ UNCHANGED <<users, categories, genres, reviews, comments, nextPk, reqs>>

\* TitleViewSet destroy
TitleDestroy ==
    /\ Idle
    /\ \E caller \in Callers, tid \in Ids :
        IF ~TitlePermission(caller, "destroy")
        THEN /\ last' = Response("titles", "destroy", caller, <<>>,
                                 PermissionDenied(caller), {})
             /\ UNCHANGED <<store, nextPk, reqs>>
        ELSE IF ~TitleExists(tid)
        THEN /\ last' = Response("titles", "destroy", caller, <<>>, "NotFound", {})
             /\ UNCHANGED <<store, nextPk, reqs>>
        ELSE /\ titles' = TitlesAfterDelete({}, {tid})
             /\ reviews' = reviews \ ReviewsDeleted({}, {tid}, {})
             /\ comments' = comments \ CommentsDeleted({}, {tid}, {}, {})
             /\ last' = Response("titles", "destroy", caller, <<>>, "NoContent", {})
             /\ UNCHANGED <<users, categories, genres, nextPk, reqs>>

----------------------------------------------------------------------------
(* Reviews: ReviewViewSet *)

\* The scores a request body may carry.
Scores == {0, 7}

\* ReviewViewSet.permission_classes = (IsAuthenticatedOrReadOnly,
\* ReviewPermission): what is decided before any object is looked up.
ReviewHasPermission(caller, action) ==
    IsAuthenticatedOrReadOnly(caller, action)

\* ReviewViewSet.get_queryset: title.reviews.all() (the caller has made sure
\* that the title exists).
ReviewQueryset(tid) == {r \in reviews : r.title = tid}

\* ReviewViewSet list and retrieve
ReviewRead ==
    /\ Idle
    /\ \E caller \in Callers, action \in SAFE_METHODS, tid \in Ids, rid \in Ids :
        /\ last' = Response("reviews", action, caller, <<tid>>,
                            IF ~ReviewHasPermission(caller, action)
                            THEN PermissionDenied(caller)
                            ELSE IF ~TitleExists(tid) THEN "NotFound"
                            ELSE IF action = "retrieve"
                                    /\ ~\E r \in ReviewQueryset(tid) : r.pk = rid
                            THEN "NotFound" ELSE "OK", {})
        /\ UNCHANGED <<store, nextPk, reqs>>

\* ReviewSerializer validation: the score bounds, and one review per author
\* and title.
ReviewSerializerValidate(caller, tid, score) ==
    IF ~ScoreValid(score) THEN "BadRequest"
    ELSE IF ~rating_once(reviews, caller, tid) THEN "Conflict"
    ELSE "valid"

\* What a create request meets before perform_create: the permission check,
\* then serializer.is_valid(raise_exception=True).
ReviewCreateValidate(caller, tid, score) ==
    IF ~ReviewHasPermission(caller, "create") THEN PermissionDenied(caller)
    ELSE ReviewSerializerValidate(caller, tid, score)

\* ReviewViewSet.perform_create: the status it ends with. The title is looked
\* up, then the row is inserted; a violation of rating_once raises
\* IntegrityError, which nothing catches.
ReviewPerformCreateStatus(caller, tid) ==
    IF ~TitleExists(tid) THEN "NotFound"
    ELSE IF ~rating_once(reviews, caller, tid) THEN "ServerError"
    ELSE "Created"

\* ReviewViewSet.perform_create: what it writes.
ReviewPerformCreate(caller, tid, score) ==
    IF ReviewPerformCreateStatus(caller, tid) = "Created"
    THEN /\ nextPk.review <= MaxPk
         /\ reviews' = reviews \cup {[pk |-> nextPk.review, author |-> caller,
                                      title |-> tid, score |-> score]}
         /\ nextPk' = [nextPk EXCEPT !.review = @ + 1]
    ELSE UNCHANGED <<reviews, nextPk>>

\* ReviewViewSet create, handled by one worker from start to end
ReviewCreate ==
    /\ Idle
    /\ \E caller \in Callers, tid \in Ids, score \in Scores :
        LET v == ReviewCreateValidate(caller, tid, score) IN
        IF v # "valid"
        THEN /\ last' = Response("reviews", "create", caller, <<tid>>, v, {})
             /\ UNCHANGED <<store, nextPk, reqs>>
        ELSE /\ ReviewPerformCreate(caller, tid, score)
             /\ last' = Response("reviews", "create", caller, <<tid>>,
                                 ReviewPerformCreateStatus(caller, tid), {})
             /\ UNCHANGED <<users, categories, genres, titles, comments, reqs>>

\* What a detail request on a review resolves to before its handler acts.
ReviewGetObject(caller, action, tid, rid) ==
    IF ~ReviewHasPermission(caller, action)
    THEN [status |-> PermissionDenied(caller), obj |-> Null]
    ELSE IF ~TitleExists(tid) \/ ~\E r \in ReviewQueryset(tid) : r.pk = rid
    THEN [status |-> "NotFound", obj |-> Null]
    ELSE LET obj == CHOOSE r \in ReviewQueryset(tid) : r.pk = rid IN
         IF ~ReviewPermission(caller, action, obj.author)
         THEN [status |-> PermissionDenied(caller), obj |-> Null]
         ELSE [status |-> "found", obj |-> obj]

\* ReviewViewSet partial_update
ReviewPartialUpdate ==
    /\ Idle
    /\ \E caller \in Callers, tid \in Ids, rid \in Ids, score \in Scores :
        LET got == ReviewGetObject(caller, "partial_update", tid, rid) IN
        IF got.status # "found"
        THEN /\ last' = Response("reviews", "partial_update", caller, <<>>,
                                 got.status, {})
             /\ UNCHANGED <<store, nextPk, reqs>>
        ELSE IF ~ScoreValid(score)
        THEN /\ last' = Response("reviews", "partial_update", caller, <<>>,
                                 "BadRequest", {})
             /\ UNCHANGED <<store, nextPk, reqs>>
        ELSE /\ reviews' = (reviews \ {got.obj}) \cup {[got.obj EXCEPT !.score = score]}
             /\ last' = Response("reviews", "partial_update", caller, <<>>, "OK", {})
             /\ UNCHANGED <<users, categories, genres, titles, comments, nextPk, reqs>>

\* ReviewViewSet destroy
ReviewDestroy ==
    /\ Idle
    /\ \E caller \in Callers, tid \in Ids, rid \in Ids :
        LET got == ReviewGetObject(caller, "destroy", tid, rid) IN
        IF got.status # "found"
        THEN /\ last' = Response("reviews", "destroy", caller, <<>>, got.status, {})
             /\ UNCHANGED <<store, nextPk, reqs>>
        ELSE /\ reviews' = reviews \ ReviewsDeleted({}, {}, {rid})
             /\ comments' = comments \ CommentsDeleted({}, {}, {rid}, {})
             /\ last' = Response("reviews", "destroy", caller, <<>>, "NoContent", {})
             /\ UNCHANGED <<users, categories, genres, titles, nextPk, reqs>>

----------------------------------------------------------------------------
(* Review creation by concurrent workers: each worker validates its        *)
(* request, and writes in a later step.                                    *)

Workers == {"w1", "w2"}

NoRequest == [pc |-> "idle", caller |-> Anonymous, tid |-> 0, score |-> 0,
              status |-> "none"]

\* ReviewViewSet create, up to perform_create: permissions and validation
ReviewCreateBegin(w) ==
    /\ reqs[w].pc = "idle"
    /\ \E caller \in Callers, tid \in Ids, score \in Scores :
        LET v == ReviewCreateValidate(caller, tid, score) IN
        reqs' = [reqs EXCEPT ![w] =
                    [pc |-> IF v = "valid" THEN "validated" ELSE "done",
                     caller |-> caller, tid |-> tid, score |-> score,
                     status |-> IF v = "valid" THEN "none" ELSE v]]
    /\ UNCHANGED <<store, nextPk, last>>

\* ReviewViewSet.perform_create, and the response
ReviewCreateSave(w) ==
    /\ reqs[w].pc = "validated"
    /\ ReviewPerformCreate(reqs[w].caller, reqs[w].tid, reqs[w].score)
    /\ reqs' = [reqs EXCEPT ![w].pc = "done",
                            ![w].status = ReviewPerformCreateStatus(reqs[w].caller,
                                                                    reqs[w].tid)]
    /\ UNCHANGED <<users, categories, genres, titles, comments, last>>

\* A store with one title, and two workers that take one request each.
InitRace ==
    /\ users = {UserRow(1, S_adm, "a@x", ADMIN, FALSE),
                UserRow(2, S_bob, "b@x", USER, FALSE)}
    /\ categories = {"film"}
    /\ genres = {}
    /\ titles = {[pk |-> 1, category |-> "film"]}
    /\ reviews = {}
    /\ comments = {}
    /\ nextPk = [user |-> 3, title |-> 2, review |-> 1, comment |-> 1]
    /\ reqs = [w \in Workers |-> NoRequest]
    /\ last = NoResponse

NextRace ==
    \E w \in Workers :
        \/ ReviewCreateBegin(w)
        \/ ReviewCreateSave(w)

SpecRace == InitRace /\ [][NextRace]_vars

----------------------------------------------------------------------------
(* Comments: CommentsViewSet *)

\* CommentsViewSet.permission_classes = (IsAuthenticatedOrReadOnly,
\* ReviewPermission)
CommentHasPermission(caller, action) ==
    IsAuthenticatedOrReadOnly(caller, action)

ReviewExists(rid) == \E r \in reviews : r.pk = rid

\* CommentsViewSet.get_queryset: review.comments.all(); the review is looked
\* up by review_id alone, title_id is not read.
CommentQueryset(tid, rid) == {c \in comments : c.review = rid}

\* CommentsViewSet list and retrieve
CommentRead ==
    /\ Idle
    /\ \E caller \in Callers, action \in SAFE_METHODS, tid \in Ids, rid \in Ids,
          cid \in Ids :
        /\ last' = Response("comments", action, caller, <<tid, rid>>,
                            IF ~CommentHasPermission(caller, action)
                            THEN PermissionDenied(caller)
                            ELSE IF ~ReviewExists(rid) THEN "NotFound"
                            ELSE IF action = "retrieve"
                                    /\ ~\E c \in CommentQueryset(tid, rid) : c.pk = cid
                            THEN "NotFound" ELSE "OK", {})
        /\ UNCHANGED <<store, nextPk, reqs>>

\* CommentsViewSet create, with CommentsViewSet.perform_create
CommentCreate ==
    /\ Idle
    /\ \E caller \in Callers, tid \in Ids, rid \in Ids :
        IF ~CommentHasPermission(caller, "create")
        THEN /\ last' = Response("comments", "create", caller, <<tid, rid>>,
                                 PermissionDenied(caller), {})
             /\ UNCHANGED <<store, nextPk, reqs>>
        ELSE IF ~ReviewExists(rid)
        THEN \* get_object_or_404(Review, id=review_id)
             /\ last' = Response("comments", "create", caller, <<tid, rid>>,
                                 "NotFound", {})
             /\ UNCHANGED <<store, nextPk, reqs>>
        ELSE /\ nextPk.comment <= MaxPk
             /\ comments' = comments \cup {[pk |-> nextPk.comment, author |-> caller,
                                            review |-> rid]}
             /\ nextPk' = [nextPk EXCEPT !.comment = @ + 1]
             /\ last' = Response("comments", "create", caller, <<tid, rid>>,
                                 "Created", {})
             /\ UNCHANGED <<users, categories, genres, titles, reviews, reqs>>

\* What a detail request on a comment resolves to before its handler acts.
CommentGetObject(caller, action, tid, rid, cid) ==
    IF ~CommentHasPermission(caller, action)
    THEN [status |-> PermissionDenied(caller), obj |-> Null]
    ELSE IF ~ReviewExists(rid) \/ ~\E c \in CommentQueryset(tid, rid) : c.pk = cid
    THEN [status |-> "NotFound", obj |-> Null]
    ELSE LET obj == CHOOSE c \in CommentQueryset(tid, rid) : c.pk = cid IN
         IF ~ReviewPermission(caller, action, obj.author)
         THEN [status |-> PermissionDenied(caller), obj |-> Null]
         ELSE [status |-> "found", obj |-> obj]

\* CommentsViewSet partial_update: only the text changes, which the model
\* does not hold.
CommentPartialUpdate ==
    /\ Idle
    /\ \E caller \in Callers, tid \in Ids, rid \in Ids, cid \in Ids :
        LET got == CommentGetObject(caller, "partial_update", tid, rid, cid) IN
        /\ last' = Response("comments", "partial_update", caller, <<>>,
                            IF got.status = "found" THEN "OK" ELSE got.status, {})
        /\ UNCHANGED <<store, nextPk, reqs>>

\* CommentsViewSet destroy
CommentDestroy ==
    /\ Idle
    /\ \E caller \in Callers, tid \in Ids, rid \in Ids, cid \in Ids :
        LET got == CommentGetObject(caller, "destroy", tid, rid, cid) IN
        IF got.status # "found"
        THEN /\ last' = Response("comments", "destroy", caller, <<>>, got.status, {})
             /\ UNCHANGED <<store, nextPk, reqs>>
        ELSE /\ comments' = comments \ CommentsDeleted({}, {}, {}, {cid})
             /\ last' = Response("comments", "destroy", caller, <<>>, "NoContent", {})
             /\ UNCHANGED <<users, categories, genres, titles, reviews, nextPk, reqs>>

----------------------------------------------------------------------------
(* The catalogue: categories, genres, titles, reviews and comments *)

\* A store with an admin and a user, as sign-up and user administration
\* leave it, and an empty catalogue.
InitCatalogue ==
    /\ users = {UserRow(1, S_adm, "a@x", ADMIN, FALSE),
                UserRow(2, S_bob, "b@x", USER, FALSE)}
    /\ categories = {}
    /\ genres = {}
    /\ titles = {}
    /\ reviews = {}
    /\ comments = {}
    /\ nextPk = [user |-> 3, title |-> 1, review |-> 1, comment |-> 1]
    /\ reqs = <<>>
    /\ last = NoResponse

NextCatalogue ==
    \/ CategoriesOther
    \/ CategoriesCreate
    \/ CategoriesDestroy
    \/ GenresOther
    \/ GenresCreate
    \/ GenresDestroy
    \/ TitleRead
    \/ TitleCreate
    \/ TitlePartialUpdate
    \/ TitleDestroy
    \/ ReviewRead
    \/ ReviewCreate
    \/ ReviewPartialUpdate
    \/ ReviewDestroy
    \/ CommentRead
    \/ CommentCreate
    \/ CommentPartialUpdate
    \/ CommentDestroy
    \/ UsersDestroy
    \/ SendResponse

SpecCatalogue == InitCatalogue /\ [][NextCatalogue]_vars

----------------------------------------------------------------------------
(* Properties of the account service *)

RoleChanged == \E u \in users : \E v \in users' : u.pk = v.pk /\ u.role # v.role

\* C2: a user's role changes only by a request whose requester is, when the
\* request is made, an admin or a superuser.
C2_RoleChangedOnlyByAdmin ==
    [][RoleChanged => (IsAdmin(last'.caller) \/ IsSuperuser(last'.caller))]_vars

\* C3: a token request is answered 200 with a non-empty token only when the
\* username names a user and the code checks against that user; an existing
\* username with a code that does not check is answered 400 without a token,
\* and (both fields given) a username that names no user 404 without a token.
C3_TokenOnlyForValidCode ==
    last.view = "token" =>
        LET n == last.arg[1]
            code == last.arg[2]
            known == \E u \in users : u.username = n
            checks == \E u \in users : u.username = n /\ check_token(u, code)
        IN /\ last.status = "OK" => (last.out # NoToken /\ known /\ checks)
           /\ last.out # NoToken => last.status = "OK"
           /\ (known /\ ~checks) => (last.status = "BadRequest" /\ last.out = NoToken)
           /\ (~known /\ code # Missing) =>
                  (last.status = "NotFound" /\ last.out = NoToken)

C3_Witness ==
    /\ last.view = "token"
    /\ last.status = "OK"
    /\ last.out # NoToken

UsersUnique ==
    \A u, v \in users :
        (u.username = v.username \/ u.email = v.email) => u = v

\* C4: the store never holds two users with one username or one email; a
\* sign-up repeating the (username, email) pair of a record succeeds and
\* leaves the user table as it is; a sign-up (with a username that is not the
\* reserved one) whose username is taken with another email, or whose email
\* is taken with another username, is answered Conflict and creates nothing.
C4_SignUpUniqueAndIdempotent ==
    [][/\ UsersUnique /\ UsersUnique'
       /\ last'.view = "signup" =>
            LET n == last'.arg[1]
                e == last'.arg[2]
            IN /\ (\E u \in users : u.username = n /\ u.email = e) =>
                      (last'.status = "OK" /\ users' = users)
               /\ (/\ n # S_me
                   /\ \E u \in users : \/ (u.username = n /\ u.email # e)
                                       \/ (u.email = e /\ u.username # n)) =>
                      (last'.status = "Conflict" /\ users' = users)]_vars

C4_Witness ==
    /\ last.view = "signup"
    /\ last.status = "Conflict"
    /\ \E u \in users : u.email = last.arg[2] /\ u.username # last.arg[1]

\* C5: a sign-up that passes validation is answered with success and leaves
\* its user record in the store, whether the email step succeeded or failed.
C5_EmailFailureNotFatal ==
    [][(last'.view = "signup" /\ SignUpValidate(last'.arg[1], last'.arg[2]) = "valid") =>
          /\ last'.status = "OK"
          /\ \E u \in users' : u.username = last'.arg[1] /\ u.email = last'.arg[2]]_vars

C5_Witness ==
    /\ last.view = "signup"
    /\ last.out = "failed"
    /\ last.status = "OK"
    /\ \E u \in users : u.username = last.arg[1] /\ u.email = last.arg[2]

\* C8: a retrieve on /users/{username}/ by an authenticated caller whose
\* path segment is "me" in any letter case returns the caller's own record.
C8_MeIsTheCaller ==
    (/\ last.view = "users"
     /\ last.action = "retrieve"
     /\ last.caller # Anonymous
     /\ Lower(last.arg) = S_me) =>
        (last.status = "OK" /\ last.out = last.caller)

C8_Witness ==
    /\ last.view = "users"
    /\ last.action = "retrieve"
    /\ last.arg = S_ME
    /\ last.status = "OK"
    /\ last.out = last.caller
    /\ \E u \in users : u.username = S_ME /\ u.pk # last.caller

\* C10: a token request leaves the user table as it is, whatever its answer;
\* after one that succeeded the same (username, code) pair still checks, so a
\* repeated request succeeds too; and a token is issued only for a username
\* that has an account record.
C10_TokenRequestChangesNothing ==
    [][last'.view = "token" =>
          /\ users' = users
          /\ last'.out # NoToken =>
                \E u \in users : u.username = last'.arg[1]
          /\ last'.status = "OK" =>
                \E u \in users' :
                    u.username = last'.arg[1] /\ check_token(u, last'.arg[2])]_vars

C10_Witness ==
    /\ last.view = "token"
    /\ last.status = "OK"
    /\ \E u \in users :
          /\ u.username = last.arg[1]
          /\ check_token(u, last.arg[2])
          /\ u.pk > 2

----------------------------------------------------------------------------
(* Properties of the catalogue *)

ReviewsUnique ==
    \A r1, r2 \in reviews :
        (r1.author = r2.author /\ r1.title = r2.title) => r1 = r2

\* C1: of two review-create requests by one author for one title that are
\* handled concurrently, one is answered Created and the other Conflict;
\* the store never holds two reviews for the pair, and no request ends as a
\* server error.
C1_OneCreatedOneConflict ==
    /\ ReviewsUnique
    /\ \A w \in DOMAIN reqs : reqs[w].status # "ServerError"
    /\ \A w1, w2 \in DOMAIN reqs :
          (/\ w1 # w2
           /\ reqs[w1].pc = "done" /\ reqs[w2].pc = "done"
           /\ reqs[w1].caller # Anonymous
           /\ reqs[w1].caller = reqs[w2].caller
           /\ reqs[w1].tid = reqs[w2].tid
           /\ TitleExists(reqs[w1].tid)
           /\ ScoreValid(reqs[w1].score) /\ ScoreValid(reqs[w2].score)) =>
              {reqs[w1].status, reqs[w2].status} = {"Created", "Conflict"}

\* C6: no review refers to a missing title or author, no comment to a
\* missing review or author, no title to a missing category; and the titles
\* that referred to a category just deleted are all still in the store, with
\* the category cleared.
C6_ReferentialIntegrity ==
    /\ \A r \in reviews : /\ \E t \in titles : t.pk = r.title
                          /\ \E u \in users : u.pk = r.author
    /\ \A c \in comments : /\ \E r \in reviews : r.pk = c.review
                           /\ \E u \in users : u.pk = c.author
    /\ \A t \in titles : t.category # Null => t.category \in categories
    /\ (last.view = "categories" /\ last.action = "destroy"
          /\ last.status = "NoContent") =>
            \A pk \in last.out : \E t \in titles : t.pk = pk /\ t.category = Null

C6_Witness ==
    /\ last.view = "categories"
    /\ last.action = "destroy"
    /\ last.status = "NoContent"
    /\ last.out # {}
    /\ reviews # {}
    /\ comments # {}

CatalogueViews == {"titles", "genres", "categories", "reviews", "comments"}

Denied == {"Unauthorized", "Forbidden"}

C9_MissingParentIsNotFound ==
    (last.view \in {"reviews", "comments"} /\ last.action \in {"list", "create"}) =>
        LET missing == \/ ~TitleExists(last.arg[1])
                       \/ (last.view = "comments" /\ ~ReviewExists(last.arg[2]))
        IN missing => last.status \in {"NotFound", "Unauthorized", "Forbidden",
                                        "BadRequest"}

====
